---- MODULE Spec2Model ----
(***************************************************************************)
(* Neo4jHandler (src/backend/neo4j_handler.py): users, posts, the          *)
(* SIMILAR_CONTENT relation rebuilt after every post, the lexicon          *)
(* sentiment classifier and the shared driver handle with its              *)
(* health-check / reconnect logic.                                         *)
(*                                                                         *)
(* A Python string is a sequence of one-character strings, so that         *)
(* str.lower(), str.split() and " ".join() are computed character by       *)
(* character.                                                              *)
(***************************************************************************)
EXTENDS Integers, Sequences, FiniteSets, TLC

(***************************************************************************)
(* Bounds of the model.                                                    *)
(***************************************************************************)
MaxUsers == 3
MaxUserOps == 3
MaxPostOps == 3
MaxFaults == 1
MaxStoredPosts == 2
MaxSharedPosts == 1
MaxPieces == 3
MaxListedPosts == 12
TicksPerSecond == 3

(***************************************************************************)
(* Strings.                                                                *)
(***************************************************************************)
Whitespace == {" ", "\t", "\n"}

UpperToLower ==
    [c \in {"A", "B", "C", "D", "E", "F", "G", "H", "I", "J", "K", "L", "M",
            "N", "O", "P", "Q", "R", "S", "T", "U", "V", "W", "X", "Y", "Z"} |->
        CASE c = "A" -> "a" [] c = "B" -> "b" [] c = "C" -> "c" [] c = "D" -> "d"
          [] c = "E" -> "e" [] c = "F" -> "f" [] c = "G" -> "g" [] c = "H" -> "h"
          [] c = "I" -> "i" [] c = "J" -> "j" [] c = "K" -> "k" [] c = "L" -> "l"
          [] c = "M" -> "m" [] c = "N" -> "n" [] c = "O" -> "o" [] c = "P" -> "p"
          [] c = "Q" -> "q" [] c = "R" -> "r" [] c = "S" -> "s" [] c = "T" -> "t"
          [] c = "U" -> "u" [] c = "V" -> "v" [] c = "W" -> "w" [] c = "X" -> "x"
          [] c = "Y" -> "y" [] c = "Z" -> "z"]

\* str.lower(): every cased character mapped to lower case, the rest kept.
lower(s) ==
    [i \in 1..Len(s) |-> IF s[i] \in DOMAIN UpperToLower THEN UpperToLower[s[i]] ELSE s[i]]

\* str.split() without arguments: the maximal runs of non-whitespace
\* characters, in order; leading, trailing and repeated whitespace yield no
\* empty token.
RECURSIVE splitFrom(_, _, _, _)
splitFrom(s, i, cur, out) ==
    IF i > Len(s)
    THEN IF cur = <<>> THEN out ELSE Append(out, cur)
    ELSE IF s[i] \in Whitespace
         THEN splitFrom(s, i + 1, <<>>, IF cur = <<>> THEN out ELSE Append(out, cur))
         ELSE splitFrom(s, i + 1, Append(cur, s[i]), out)

split(s) == splitFrom(s, 1, <<>>, <<>>)

\* " ".join(filter(None, contents)): the non-empty strings of the list,
\* in order, with one space between neighbours.
RECURSIVE joinAll(_)
joinAll(strs) ==
    IF strs = <<>> THEN <<>>
    ELSE IF Len(strs) = 1 THEN Head(strs)
    ELSE Head(strs) \o <<" ">> \o joinAll(Tail(strs))

join(contents) == joinAll(SelectSeq(contents, LAMBDA c : c # <<>>))

\* set(seq)
Range(f) == {f[i] : i \in DOMAIN f}

\* toString(datetime()), line 107: the text of a point in time; the date, the
\* hour and the minute, the same for every post here, are left out. The
\* seconds have two digits, the fraction of the second is printed only when it
\* is not zero, the zone ("Z") ends the text.
Digits == <<"0", "1", "2", "3", "4", "5", "6", "7", "8", "9">>

toString(dt) ==
    <<Digits[(dt.sec \div 10) + 1], Digits[(dt.sec % 10) + 1]>>
        \o (IF dt.frac = 0 THEN <<>> ELSE <<".", Digits[dt.frac + 1]>>)
        \o <<"Z">>

\* The code points of the characters of such a text.
ord ==
    [c \in {".", "Z"} \cup Range(Digits) |->
        CASE c = "." -> 46 [] c = "0" -> 48 [] c = "1" -> 49 [] c = "2" -> 50
          [] c = "3" -> 51 [] c = "4" -> 52 [] c = "5" -> 53 [] c = "6" -> 54
          [] c = "7" -> 55 [] c = "8" -> 56 [] c = "9" -> 57 [] c = "Z" -> 90]

\* s < t for two strings: ORDER BY on a string property compares the texts
\* character by character, a proper prefix first.
RECURSIVE string_less(_, _)
string_less(s, t) ==
    IF t = <<>> THEN FALSE
    ELSE IF s = <<>> THEN TRUE
    ELSE IF Head(s) = Head(t) THEN string_less(Tail(s), Tail(t))
    ELSE ord[Head(s)] < ord[Head(t)]

RECURSIVE concat(_)
concat(ss) == IF ss = <<>> THEN <<>> ELSE Head(ss) \o concat(Tail(ss))

(***************************************************************************)
(* Sentiment: Neo4jHandler._analyze_sentiment.                             *)
(***************************************************************************)
positive_words ==
    { <<"g","o","o","d">>, <<"g","r","e","a","t">>, <<"a","w","e","s","o","m","e">>,
      <<"e","x","c","e","l","l","e","n","t">>, <<"h","a","p","p","y">>,
      <<"l","o","v","e">>, <<"w","o","n","d","e","r","f","u","l">>,
      <<"a","m","a","z","i","n","g">> }

negative_words ==
    { <<"b","a","d">>, <<"t","e","r","r","i","b","l","e">>, <<"a","w","f","u","l">>,
      <<"h","a","t","e">>, <<"s","a","d">>, <<"a","n","g","r","y">>,
      <<"p","o","o","r">> }

\* sum(1 for w in words if w in lexicon)
RECURSIVE count_in(_, _)
count_in(words, lexicon) ==
    IF words = <<>> THEN 0
    ELSE (IF Head(words) \in lexicon THEN 1 ELSE 0) + count_in(Tail(words), lexicon)

_analyze_sentiment_ge(content) ==
    LET words == split(lower(content))
        pos_count == count_in(words, positive_words)
        neg_count == count_in(words, negative_words)
    IN IF pos_count >= neg_count THEN "positive"
       ELSE IF neg_count > pos_count THEN "negative"
       ELSE "neutral"

_analyze_sentiment(content) ==
    LET words == split(lower(content))
        pos_count == count_in(words, positive_words)
        neg_count == count_in(words, negative_words)
    IN IF pos_count > neg_count THEN "positive"
       ELSE IF neg_count > pos_count THEN "negative"
       ELSE "neutral"

(***************************************************************************)
(* Inputs.                                                                 *)
(***************************************************************************)
Threads == {"t1", "t2"}
UserIds == 1..MaxUsers
Names == {"Ann", "Bob"}

\* Contents of the posts of the graph scenarios.
LoveDogs == <<"I"," ","l","o","v","e"," ","d","o","g","s">>
LoveCats == <<"i"," "," ","L","O","V","E","\t","c","a","t","s"," ">>
Unrelated == <<"t","o","t","a","l","l","y","\n","u","n","r","e","l","a","t","e","d">>
Blank == <<" ">>
PostContents == {LoveDogs, LoveCats, Unrelated}
StoredContents == PostContents \cup {Blank}

\* Contents of the classifier scenarios: up to MaxPieces pieces, glued.
Pieces ==
    { <<"G","o","o","d"," ">>, <<"b","a","d","\t">>, <<"S","A","D">>,
      <<"l","o","v","e","\n">>, <<"x"," ">>, <<" ">> }

RECURSIVE PieceSeqs(_)
PieceSeqs(n) ==
    IF n = 0 THEN {<<>>}
    ELSE LET shorter == PieceSeqs(n - 1)
         IN shorter \cup {Append(ps, p) : ps \in shorter, p \in Pieces}

SentContents == {concat(ps) : ps \in PieceSeqs(MaxPieces)}

(***************************************************************************)
(* State.                                                                  *)
(***************************************************************************)
VARIABLES
    faults,         \* failures the server may still answer with (-1: any number)
    driver,         \* self.driver: "none" (None), "open", "closed" (closed, still referenced)
    users,          \* User nodes: records [user_id, name]
    posts,          \* Post nodes in creation order:
                    \* [post_id, user_id, content, sentiment, timestamp, deleted]
    edges,          \* SIMILAR_CONTENT relationships: pairs <<source user_id, target user_id>>
    last_rebuild,   \* the thread whose clear (and write, when it had one) ran last
    pc,             \* per request thread: the statement it is at
    op,             \* per request thread: the call it serves, [kind, user_id, arg]
    conn,           \* per request thread: the frames of ensure_connection / connect / close
    sentiment,      \* per request thread: create_post's local
    users_data,     \* per request thread: _update_relationships' local
    relationships,  \* per request thread: _update_relationships' local
    result,         \* per request thread: how its last call ended
    returned,       \* per request thread: the rows its last listing returned
    calls,          \* per request thread: what the current call has invoked so far
    budget          \* per request thread: the calls it will still make, by kind, and
                    \* the user_ids it makes them for

vars == <<faults, driver, users, posts, edges, last_rebuild, pc, op, conn, sentiment,
          users_data, relationships, result, returned, calls, budget>>

dbVars == <<users, posts, edges, last_rebuild>>
localVars == <<sentiment, users_data, relationships, returned>>

NoBudget == [create_user |-> 0, create_post |-> 0, get_user_posts |-> 0,
             get_recent_posts |-> 0, ids |-> {}]
NoOp == [kind |-> "none", user_id |-> 0, arg |-> <<>>]
NoConn == [phase |-> "try", inConnect |-> FALSE, closer |-> "none", elapsed |-> 0,
           tries |-> 0, exc |-> "none"]

(***************************************************************************)
(* The connection: connect (under backoff.on_exception), ensure_connection,*)
(* check_connection, close.                                                *)
(***************************************************************************)
max_time == 30

\* The exceptions backoff retries on: ServiceUnavailable, SessionExpired.
Retryable(e) == e \in {"ServiceUnavailable", "SessionExpired"}

\* backoff.expo: 1, 2, 4, ... seconds before the next try.
RECURSIVE expo(_)
expo(n) == IF n = 0 THEN 1 ELSE 2 * expo(n - 1)

\* What `with self.driver.session() as session: session.run(...)` can do,
\* depending on the handle read and on the server at that moment: "ok", or
\* the exception raised (ServiceUnavailable: the server is unreachable;
\* ClientError: it refuses the query). A closed driver either still serves
\* the session (with a deprecation warning) or raises DriverError, depending
\* on the driver's version.
SessionOutcomes ==
    IF driver = "none" THEN {"AttributeError"}
    ELSE IF driver = "closed" THEN {"ok", "DriverError"}
    ELSE {"ok"} \cup (IF faults # 0 THEN {"ServiceUnavailable", "ClientError"} ELSE {})

\* The server has answered one of its failures.
Answered(e) ==
    faults' = IF driver = "open" /\ e # "ok" /\ faults > 0 THEN faults - 1 ELSE faults

\* What the step leaves in the call's trace, once, when the handle it read
\* was None or already closed.
SessionEvent(t) ==
    LET event == IF driver = "none" THEN "session on None"
                 ELSE IF driver = "closed" THEN "session on closed driver"
                 ELSE "session"
    IN IF event = "session" \/ \E k \in DOMAIN calls[t] : calls[t][k] = event
       THEN <<>> ELSE <<event>>

BodyPc(o) ==
    CASE o.kind = "create_user" -> "cu_query"
      [] o.kind = "create_post" -> "cp_sentiment"
      [] o.kind = "get_user_posts" -> "gup_query"
      [] o.kind = "get_recent_posts" -> "grp_query"

\* The call ends: with "ok" or with the exception that reached its caller.
Returns(t, r) ==
    /\ pc' = [pc EXCEPT ![t] = "idle"]
    /\ result' = [result EXCEPT ![t] = r]
    /\ conn' = [conn EXCEPT ![t] = NoConn]

\* ensure_connection returns to the operation that called it.
EnsureReturns(t) ==
    /\ pc' = [pc EXCEPT ![t] = BodyPc(op[t])]
    /\ conn' = [conn EXCEPT ![t] = NoConn]
    /\ UNCHANGED result

\* connect returns: to line 37 (the try block) or out of line 40.
ConnectReturns(t) ==
    IF conn[t].phase = "try"
    THEN /\ pc' = [pc EXCEPT ![t] = "check"]
         /\ conn' = [conn EXCEPT ![t].inConnect = FALSE]
         /\ UNCHANGED result
    ELSE EnsureReturns(t)

\* ensure_connection's except block: close(), then connect().
EnsureExcept(t) ==
    /\ pc' = [pc EXCEPT ![t] = "close_if"]
    /\ conn' = [conn EXCEPT ![t].phase = "except", ![t].inConnect = FALSE,
                            ![t].closer = "ensure"]
    /\ UNCHANGED result

\* backoff without max_time: a retryable failure is always retried.
AfterClose_no_max_time(t) ==
    LET c == conn[t] IN
    IF c.closer = "ensure"
    THEN \* line 40: self.connect()
         /\ pc' = [pc EXCEPT ![t] = "connect"]
         /\ conn' = [conn EXCEPT ![t].inConnect = TRUE, ![t].closer = "none",
                                 ![t].elapsed = 0, ![t].tries = 0]
         /\ UNCHANGED result
    ELSE \* line 51: check_connection re-raises
         IF c.inConnect
         THEN IF Retryable(c.exc)
              THEN \* backoff sleeps and calls connect again
                   LET seconds == expo(c.tries)
                   IN /\ pc' = [pc EXCEPT ![t] = "connect"]
                      /\ conn' = [conn EXCEPT ![t].elapsed = c.elapsed + seconds,
                                              ![t].tries = c.tries + 1,
                                              ![t].closer = "none"]
                      /\ UNCHANGED result
              ELSE \* backoff gives up: connect raises
                   IF c.phase = "try" THEN EnsureExcept(t) ELSE Returns(t, c.exc)
         ELSE EnsureExcept(t)

\* close() is over: back in its caller.
AfterClose(t) ==
    LET c == conn[t] IN
    IF c.closer = "ensure"
    THEN \* line 40: self.connect()
         /\ pc' = [pc EXCEPT ![t] = "connect"]
         /\ conn' = [conn EXCEPT ![t].inConnect = TRUE, ![t].closer = "none",
                                 ![t].elapsed = 0, ![t].tries = 0]
         /\ UNCHANGED result
    ELSE \* line 51: check_connection re-raises
         IF c.inConnect
         THEN IF Retryable(c.exc) /\ c.elapsed < max_time
              THEN \* backoff sleeps and calls connect again
                   LET seconds == IF expo(c.tries) < max_time - c.elapsed
                                  THEN expo(c.tries) ELSE max_time - c.elapsed
                   IN /\ pc' = [pc EXCEPT ![t] = "connect"]
                      /\ conn' = [conn EXCEPT ![t].elapsed = c.elapsed + seconds,
                                              ![t].tries = c.tries + 1,
                                              ![t].closer = "none"]
                      /\ UNCHANGED result
              ELSE \* backoff gives up: connect raises
                   IF c.phase = "try" THEN EnsureExcept(t) ELSE Returns(t, c.exc)
         ELSE EnsureExcept(t)

\* ensure_connection, line 35
EnsureConnection(t) ==
    /\ pc[t] = "ec"
    /\ IF driver = "none"
       THEN /\ pc' = [pc EXCEPT ![t] = "connect"]
            /\ conn' = [conn EXCEPT ![t].inConnect = TRUE]
       ELSE /\ pc' = [pc EXCEPT ![t] = "check"]
            /\ UNCHANGED conn
    /\ calls' = [calls EXCEPT ![t] = Append(@, "ensure_connection")]
    /\ UNCHANGED <<faults, driver, dbVars, op, localVars, result, budget>>

\* connect, lines 25-27
Connect(t) ==
    /\ pc[t] = "connect"
    /\ IF driver = "none"
       THEN /\ driver' = "open"
            /\ pc' = [pc EXCEPT ![t] = "check"]
            /\ UNCHANGED <<conn, result>>
       ELSE /\ UNCHANGED driver
            /\ ConnectReturns(t)
    /\ UNCHANGED <<faults, dbVars, op, localVars, calls, budget>>

\* check_connection, lines 44-49
CheckConnection(t) ==
    /\ pc[t] = "check"
    /\ \E e \in SessionOutcomes :
          /\ Answered(e)
          /\ IF e = "ok"
             THEN IF conn[t].inConnect THEN ConnectReturns(t) ELSE EnsureReturns(t)
             ELSE /\ pc' = [pc EXCEPT ![t] = "close_if"]
                  /\ conn' = [conn EXCEPT ![t].closer = "check", ![t].exc = e]
                  /\ UNCHANGED result
    /\ calls' = [calls EXCEPT ![t] = @ \o SessionEvent(t)]
    /\ UNCHANGED <<driver, dbVars, op, localVars, budget>>

\* close, line 54
CloseIf(t) ==
    /\ pc[t] = "close_if"
    /\ IF driver = "none"
       THEN AfterClose(t)
       ELSE /\ pc' = [pc EXCEPT ![t] = "close_do"]
            /\ UNCHANGED <<conn, result>>
    /\ UNCHANGED <<faults, driver, dbVars, op, localVars, calls, budget>>

\* close, line 56 (an exception here is logged and dropped)
CloseDo(t) ==
    /\ pc[t] = "close_do"
    /\ driver' = IF driver = "none" THEN "none" ELSE "closed"
    /\ pc' = [pc EXCEPT ![t] = "close_fin"]
    /\ UNCHANGED <<faults, conn, result, dbVars, op, localVars, calls, budget>>

\* close, line 60
CloseFin(t) ==
    /\ pc[t] = "close_fin"
    /\ driver' = "none"
    /\ AfterClose(t)
    /\ UNCHANGED <<faults, dbVars, op, localVars, calls, budget>>

(***************************************************************************)
(* The queries, as functions of the graph.                                 *)
(***************************************************************************)
min_common_words == 1

UserExists(us, id) == \E u \in us : u.user_id = id

\* CREATE instead of MERGE: a second node for a known user_id.
insert_user(us, id, name) == us \cup {[user_id |-> id, name |-> name]}

\* MERGE (u:User {user_id}) ON CREATE SET u.name ON MATCH SET u.name
merge_user(us, id, name) ==
    IF UserExists(us, id)
    THEN {IF u.user_id = id THEN [u EXCEPT !.name = name] ELSE u : u \in us}
    ELSE us \cup {[user_id |-> id, name |-> name]}

\* The MATCH of create_post's query made optional: a row comes back anyway.
record_found_always(us, id) == TRUE

\* create_post, lines 99 and 118-120: the query returns a row (record is not
\* None) only when MATCH (u:User {user_id}) finds the user.
record_found(us, id) == UserExists(us, id)

\* datetime(), line 104: the clock when the post is created, one tick after
\* the post before it, TicksPerSecond ticks to the second.
datetime(ps) ==
    LET ticks == Len(ps) + 1
    IN [sec |-> ticks \div TicksPerSecond, frac |-> ticks % TicksPerSecond]

\* CREATE (p:Post {...})-[:POSTED_BY]->(u) ... SET p.timestamp = toString(p.timestamp)
\* post_id stands for randomUUID(): a fresh identifier, here the rank of the
\* post in the order of creation. No deleted property is set.
new_post(ps, id, content, tag) ==
    Append(ps, [post_id |-> Len(ps) + 1, user_id |-> id, content |-> content,
                sentiment |-> tag, timestamp |-> toString(datetime(ps)),
                deleted |-> FALSE])

\* COLLECT(p.content) over the posts of one user
contents_of(ps, id) ==
    LET mine == SelectSeq(ps, LAMBDA p : p.user_id = id)
    IN [k \in 1..Len(mine) |-> mine[k].content]

\* The fetch of _update_relationships: one row per user with size(contents) > 0.
RECURSIVE fetch_from(_, _, _)
fetch_from(us, ps, id) ==
    IF id > MaxUsers THEN <<>>
    ELSE (IF UserExists(us, id) /\ contents_of(ps, id) # <<>>
          THEN <<[user_id |-> id, contents |-> contents_of(ps, id)]>>
          ELSE <<>>) \o fetch_from(us, ps, id + 1)

fetch_users_data(us, ps) == fetch_from(us, ps, 1)

\* line 180 with the threshold off by one
too_few_users_lt1(ud) == Len(ud) < 1

\* line 180: len(users_data) < 2
too_few_users(ud) == Len(ud) < 2

\* user_words, lines 184-193, in the order of user_ids (line 201)
user_words(ud) ==
    [k \in 1..Len(ud) |-> Range(split(lower(join(ud[k].contents))))]

\* the loops of lines 203-211
RECURSIVE pair_loop(_, _, _, _)
pair_loop(ud, words, i, j) ==
    IF i > Len(ud) THEN <<>>
    ELSE IF j > Len(ud) THEN pair_loop(ud, words, i + 1, i + 2)
    ELSE (IF Cardinality(words[i] \cap words[j]) >= min_common_words
          THEN << <<ud[i].user_id, ud[j].user_id>>, <<ud[j].user_id, ud[i].user_id>> >>
          ELSE <<>>) \o pair_loop(ud, words, i, j + 1)

\* min_common_words = 0: every pair of fetched users qualifies.
compute_relationships_any(ud) ==
    pair_loop(ud, [k \in 1..Len(ud) |-> {<<>>}], 1, 2)

\* Only the first direction of each pair is appended.
compute_relationships_oneway(ud) ==
    LET all == pair_loop(ud, user_words(ud), 1, 2)
    IN [k \in 1..(Len(all) \div 2) |-> all[2 * k - 1]]

compute_relationships(ud) == pair_loop(ud, user_words(ud), 1, 2)

\* MATCH ()-[r:SIMILAR_CONTENT]->() DELETE r
\* The delete forgotten: the old relationships stay.
clear_relationships_keep(es) == es

clear_relationships(es) == {}

\* DELETE r for a relationship of any type: the POSTED_BY relationships go
\* too, and the posts are no user's.
delete_relationships_any_type(ps, es) ==
    [posts |-> [k \in DOMAIN ps |-> [ps[k] EXCEPT !.user_id = 0]], edges |-> {}]

\* What the query of _clear_relationships leaves of the relationships of
\* the graph: POSTED_BY (the user_id of each post) and SIMILAR_CONTENT.
delete_relationships(ps, es) == [posts |-> ps, edges |-> clear_relationships(es)]

\* No UNWIND: only the first pair of the batch is merged.
create_relationships_first(es, us, rels) == es \cup {rels[1]}

\* UNWIND $relationships ... MATCH u1, u2 ... MERGE (u1)-[:SIMILAR_CONTENT]->(u2)
create_relationships(es, us, rels) ==
    es \cup {rels[k] : k \in {n \in DOMAIN rels :
                                UserExists(us, rels[n][1]) /\ UserExists(us, rels[n][2])}}

\* ORDER BY p.timestamp DESC: the rows by falling timestamp, the timestamps
\* compared as the strings they are stored as.
RECURSIVE order_by_timestamp_desc(_)
order_by_timestamp_desc(rows) ==
    IF rows = <<>> THEN <<>>
    ELSE LET k == CHOOSE i \in DOMAIN rows :
                      \A j \in DOMAIN rows :
                          ~string_less(rows[i].timestamp, rows[j].timestamp)
             rest == [i \in 1..(Len(rows) - 1) |-> IF i < k THEN rows[i] ELSE rows[i + 1]]
         IN <<rows[k]>> \o order_by_timestamp_desc(rest)

limit == 10

\* LIMIT 10
first_rows(rows) == SubSeq(rows, 1, IF Len(rows) < limit THEN Len(rows) ELSE limit)

\* get_user_posts, lines 131-138
user_posts(us, ps, id) ==
    LET mine == SelectSeq(ps, LAMBDA p : p.user_id = id /\ UserExists(us, id))
    IN order_by_timestamp_desc(
         [k \in 1..Len(mine) |->
             [post_id |-> mine[k].post_id, content |-> mine[k].content,
              sentiment |-> mine[k].sentiment, timestamp |-> mine[k].timestamp]])

\* get_recent_posts, lines 147-158
recent_posts(us, ps) ==
    LET live == SelectSeq(ps, LAMBDA p : ~p.deleted /\ UserExists(us, p.user_id))
    IN first_rows(order_by_timestamp_desc(
         [k \in 1..Len(live) |->
             [post_id |-> live[k].post_id, content |-> live[k].content,
              sentiment |-> live[k].sentiment, timestamp |-> live[k].timestamp,
              user_name |-> (CHOOSE u \in us : u.user_id = live[k].user_id).name,
              user_id |-> live[k].user_id]]))

(***************************************************************************)
(* The operations.                                                         *)
(***************************************************************************)
Calls(t, o) ==
    /\ pc[t] = "idle"
    /\ budget[t][o.kind] > 0
    /\ o.user_id \in budget[t].ids
    /\ budget' = [budget EXCEPT ![t][o.kind] = @ - 1]
    /\ op' = [op EXCEPT ![t] = o]
    /\ pc' = [pc EXCEPT ![t] = "ec"]
    /\ conn' = [conn EXCEPT ![t] = NoConn]
    /\ result' = [result EXCEPT ![t] = "pending"]
    /\ calls' = [calls EXCEPT ![t] = <<>>]
    /\ sentiment' = [sentiment EXCEPT ![t] = "none"]
    /\ users_data' = [users_data EXCEPT ![t] = <<>>]
    /\ relationships' = [relationships EXCEPT ![t] = <<>>]
    /\ returned' = [returned EXCEPT ![t] = <<>>]
    /\ UNCHANGED <<faults, driver, dbVars>>

\* a request calls create_user(user_id, name)
CreateUserCall(t) ==
    \E id \in UserIds, name \in Names :
        Calls(t, [kind |-> "create_user", user_id |-> id, arg |-> name])

\* a request calls create_post(user_id, content)
CreatePostCall(t) ==
    \E id \in UserIds, content \in PostContents :
        Calls(t, [kind |-> "create_post", user_id |-> id, arg |-> content])

\* create_user, lines 74-76
CreateUserQuery(t) ==
    /\ pc[t] = "cu_query"
    /\ \E e \in SessionOutcomes :
          /\ Answered(e)
          /\ IF e = "ok"
             THEN /\ users' = merge_user(users, op[t].user_id, op[t].arg)
                  /\ calls' = [calls EXCEPT ![t] =
                                  @ \o <<"create_user query",
                                         IF UserExists(users, op[t].user_id)
                                         THEN "ON MATCH" ELSE "ON CREATE">>]
                  /\ Returns(t, "ok")
             ELSE /\ UNCHANGED users
                  /\ calls' = [calls EXCEPT ![t] =
                                  Append(@, "create_user query") \o SessionEvent(t)]
                  /\ Returns(t, e)
    /\ UNCHANGED <<driver, posts, edges, last_rebuild, op, localVars, budget>>

\* create_post, line 96
AnalyzeSentiment(t) ==
    /\ pc[t] = "cp_sentiment"
    /\ sentiment' = [sentiment EXCEPT ![t] = _analyze_sentiment(op[t].arg)]
    /\ pc' = [pc EXCEPT ![t] = "cp_query"]
    /\ UNCHANGED <<faults, driver, dbVars, op, conn, users_data, relationships, returned,
                   result, calls, budget>>

\* create_post, lines 111-124
CreatePostQuery(t) ==
    /\ pc[t] = "cp_query"
    /\ \E e \in SessionOutcomes :
          /\ Answered(e)
          /\ IF e = "ok"
             THEN IF record_found(users, op[t].user_id)
                  THEN /\ posts' = new_post(posts, op[t].user_id, op[t].arg, sentiment[t])
                       /\ pc' = [pc EXCEPT ![t] = "ur_fetch"]
                       /\ calls' = [calls EXCEPT ![t] =
                                       @ \o <<"create_post query", "_update_relationships">>]
                       /\ UNCHANGED <<conn, result>>
                  ELSE /\ UNCHANGED posts
                       /\ calls' = [calls EXCEPT ![t] = Append(@, "create_post query")]
                       /\ Returns(t, "UserNotFound")
             ELSE /\ UNCHANGED posts
                  /\ calls' = [calls EXCEPT ![t] =
                                  Append(@, "create_post query") \o SessionEvent(t)]
                  /\ Returns(t, e)
    /\ UNCHANGED <<driver, users, edges, last_rebuild, op, localVars, budget>>

\* No except block: the exception leaves create_post.
Swallowed_reraise(t, event) ==
    /\ calls' = [calls EXCEPT ![t] = Append(@, event) \o SessionEvent(t)
                                       \o <<"Error updating relationships">>]
    /\ Returns(t, "RecomputationError")

\* _update_relationships, lines 216-218, then create_post, line 126
Swallowed(t, event) ==
    /\ calls' = [calls EXCEPT ![t] = Append(@, event) \o SessionEvent(t)
                                       \o <<"Error updating relationships">>]
    /\ Returns(t, "ok")

\* _update_relationships, lines 176-181
UpdateFetch(t) ==
    /\ pc[t] = "ur_fetch"
    /\ \E e \in SessionOutcomes :
          /\ Answered(e)
          /\ IF e = "ok"
             THEN LET ud == fetch_users_data(users, posts)
                  IN /\ users_data' = [users_data EXCEPT ![t] = ud]
                     /\ calls' = [calls EXCEPT ![t] = Append(@, "fetch")]
                     /\ IF too_few_users(ud)
                        THEN Returns(t, "ok")
                        ELSE /\ pc' = [pc EXCEPT ![t] = "ur_clear"]
                             /\ UNCHANGED <<conn, result>>
             ELSE /\ UNCHANGED users_data
                  /\ Swallowed(t, "fetch")
    /\ UNCHANGED <<driver, dbVars, op, sentiment, relationships, returned, budget>>

\* _update_relationships, lines 196-213, with _clear_relationships
UpdateClear(t) ==
    /\ pc[t] = "ur_clear"
    /\ \E e \in SessionOutcomes :
          /\ Answered(e)
          /\ IF e = "ok"
             THEN LET rels == compute_relationships(users_data[t])
                      after == delete_relationships(posts, edges)
                  IN /\ edges' = after.edges
                     /\ posts' = after.posts
                     /\ relationships' = [relationships EXCEPT ![t] = rels]
                     /\ calls' = [calls EXCEPT ![t] = Append(@, "clear")]
                     /\ IF rels = <<>>
                        THEN /\ last_rebuild' = t
                             /\ Returns(t, "ok")
                        ELSE /\ pc' = [pc EXCEPT ![t] = "ur_write"]
                             /\ UNCHANGED <<conn, result, last_rebuild>>
             ELSE /\ UNCHANGED <<posts, edges, relationships, last_rebuild>>
                  /\ Swallowed(t, "clear")
    /\ UNCHANGED <<driver, users, op, sentiment, users_data, returned, budget>>

\* _update_relationships, line 214, with _create_relationships
UpdateWrite(t) ==
    /\ pc[t] = "ur_write"
    /\ \E e \in SessionOutcomes :
          /\ Answered(e)
          /\ IF e = "ok"
             THEN /\ edges' = create_relationships(edges, users, relationships[t])
                  /\ last_rebuild' = t
                  /\ calls' = [calls EXCEPT ![t] = Append(@, "write")]
                  /\ Returns(t, "ok")
             ELSE /\ UNCHANGED <<edges, last_rebuild>>
                  /\ Swallowed(t, "write")
    /\ UNCHANGED <<driver, users, posts, op, localVars, budget>>

\* a request calls get_user_posts(user_id)
GetUserPostsCall(t) ==
    \E id \in UserIds :
        Calls(t, [kind |-> "get_user_posts", user_id |-> id, arg |-> <<>>])

\* a request calls get_recent_posts()
GetRecentPostsCall(t) ==
    Calls(t, [kind |-> "get_recent_posts", user_id |-> 0, arg |-> <<>>])

\* get_user_posts, lines 140-142
GetUserPostsQuery(t) ==
    /\ pc[t] = "gup_query"
    /\ \E e \in SessionOutcomes :
          /\ Answered(e)
          /\ IF e = "ok"
             THEN /\ returned' = [returned EXCEPT ![t] = user_posts(users, posts, op[t].user_id)]
                  /\ calls' = [calls EXCEPT ![t] = Append(@, "get_user_posts query")]
                  /\ Returns(t, "ok")
             ELSE /\ UNCHANGED returned
                  /\ calls' = [calls EXCEPT ![t] =
                                  Append(@, "get_user_posts query") \o SessionEvent(t)]
                  /\ Returns(t, e)
    /\ UNCHANGED <<driver, dbVars, op, sentiment, users_data, relationships, budget>>

\* get_recent_posts, lines 160-162
GetRecentPostsQuery(t) ==
    /\ pc[t] = "grp_query"
    /\ \E e \in SessionOutcomes :
          /\ Answered(e)
          /\ IF e = "ok"
             THEN /\ returned' = [returned EXCEPT ![t] = recent_posts(users, posts)]
                  /\ calls' = [calls EXCEPT ![t] = Append(@, "get_recent_posts query")]
                  /\ Returns(t, "ok")
             ELSE /\ UNCHANGED returned
                  /\ calls' = [calls EXCEPT ![t] =
                                  Append(@, "get_recent_posts query") \o SessionEvent(t)]
                  /\ Returns(t, e)
    /\ UNCHANGED <<driver, dbVars, op, sentiment, users_data, relationships, budget>>

(***************************************************************************)
(* The similarity relation the specification defines, stated on the text   *)
(* of the posts: a token is a maximal run of non-whitespace characters.    *)
(***************************************************************************)
IsToken(s, i, j) ==
    /\ i <= j
    /\ \A k \in i..j : s[k] \notin Whitespace
    /\ i = 1 \/ s[i - 1] \in Whitespace
    /\ j = Len(s) \/ s[j + 1] \in Whitespace

TokenOccurrences(s) ==
    {ij \in (1..Len(s)) \X (1..Len(s)) : IsToken(s, ij[1], ij[2])}

LowerCased(s) ==
    [k \in 1..Len(s) |-> IF s[k] \in DOMAIN UpperToLower THEN UpperToLower[s[k]] ELSE s[k]]

Tokens(s) == {LowerCased(SubSeq(s, ij[1], ij[2])) : ij \in TokenOccurrences(s)}

Vocabulary(ps, id) ==
    UNION {Tokens(ps[k].content) : k \in {n \in DOMAIN ps : ps[n].user_id = id}}

SimilarPairs(ps) ==
    {ab \in UserIds \X UserIds :
        /\ ab[1] # ab[2]
        /\ Cardinality(Vocabulary(ps, ab[1]) \cap Vocabulary(ps, ab[2])) >= 1}

ContentBearing(ps) == {ps[k].user_id : k \in DOMAIN ps}

Logged(t, event) == event \in Range(calls[t])

Occurrences(t, event) == Cardinality({k \in DOMAIN calls[t] : calls[t][k] = event})

\* create_post has returned its post to thread t's caller.
PostReturned(t) ==
    pc[t] = "idle" /\ op[t].kind = "create_post" /\ result[t] = "ok"

\* ... and the recomputation it ran ended without an exception.
RecomputedOk(t) ==
    PostReturned(t) /\ ~Logged(t, "Error updating relationships")

(***************************************************************************)
(* Specifications.                                                         *)
(***************************************************************************)
\* The handler has been constructed (connect returned), nothing is running.
Constructed ==
    /\ driver = "open"
    /\ pc = [t \in Threads |-> "idle"]
    /\ op = [t \in Threads |-> NoOp]
    /\ conn = [t \in Threads |-> NoConn]
    /\ sentiment = [t \in Threads |-> "none"]
    /\ users_data = [t \in Threads |-> <<>>]
    /\ relationships = [t \in Threads |-> <<>>]
    /\ returned = [t \in Threads |-> <<>>]
    /\ result = [t \in Threads |-> "none"]
    /\ calls = [t \in Threads |-> <<>>]

EmptyStore ==
    /\ last_rebuild = "none"
    /\ users = {}
    /\ posts = <<>>
    /\ edges = {}

Step(t) ==
    \/ CreateUserCall(t)
    \/ CreatePostCall(t)
    \/ EnsureConnection(t)
    \/ Connect(t)
    \/ CheckConnection(t)
    \/ CloseIf(t)
    \/ CloseDo(t)
    \/ CloseFin(t)
    \/ CreateUserQuery(t)
    \/ AnalyzeSentiment(t)
    \/ CreatePostQuery(t)
    \/ UpdateFetch(t)
    \/ UpdateClear(t)
    \/ UpdateWrite(t)

Next == (\E t \in Threads : Step(t))

\* One client, one call after the other, on an empty database.
InitSeq ==
    /\ Constructed
    /\ faults = MaxFaults
    /\ EmptyStore
    /\ budget = [t \in Threads |->
                    IF t = "t1"
                    THEN [create_user |-> MaxUserOps, create_post |-> MaxPostOps,
                          ids |-> UserIds]
                    ELSE NoBudget]

SpecSeq == InitSeq /\ [][Next]_vars

\* One client, one call, on a database that earlier runs have filled: every
\* user exists, there are up to MaxStoredPosts posts, and SIMILAR_CONTENT
\* relationships of any origin.
StoredEdges == SUBSET {<<1, 2>>, <<2, 1>>, <<2, 3>>, <<3, 1>>}

RECURSIVE StoredPosts(_)
StoredPosts(n) ==
    IF n = 0 THEN {<<>>}
    ELSE LET shorter == StoredPosts(n - 1)
         IN shorter \cup
            {new_post(ps, id, c, _analyze_sentiment(c)) :
                ps \in {q \in shorter : Len(q) = n - 1}, id \in UserIds, c \in StoredContents}

InitDb ==
    /\ Constructed
    /\ faults = MaxFaults
    /\ last_rebuild = "none"
    /\ users = {[user_id |-> id, name |-> "Ann"] : id \in UserIds}
    /\ posts \in StoredPosts(MaxStoredPosts)
    /\ edges \in StoredEdges
    /\ budget \in {[t \in Threads |-> IF t = "t1" THEN b ELSE NoBudget] :
                      b \in {[create_user |-> 1, create_post |-> 0, ids |-> UserIds],
                             [create_user |-> 0, create_post |-> 1, ids |-> UserIds]}}

SpecDb == InitDb /\ [][Next]_vars

\* Two clients at once, on a database that earlier sequential calls have
\* filled and left consistent: every user exists, up to MaxSharedPosts posts,
\* and the relationships the last rebuild wrote for them.
InitConc ==
    /\ Constructed
    /\ faults = MaxFaults
    /\ last_rebuild = "none"
    /\ users = {[user_id |-> id, name |-> "Ann"] : id \in UserIds}
    /\ posts \in StoredPosts(MaxSharedPosts)
    /\ edges = SimilarPairs(posts)
    /\ budget \in {[t \in Threads |->
                        IF t = "t1" THEN b
                        ELSE [create_user |-> 0, create_post |-> 1, ids |-> {2, 3}]] :
                      b \in {[create_user |-> 1, create_post |-> 0, ids |-> {2}],
                             [create_user |-> 0, create_post |-> 1, ids |-> {2}]}}

Spec == InitConc /\ [][Next]_vars

\* One client, a server that may fail any number of times, and a scheduler
\* that lets a running request take its next step.
InitConn ==
    /\ Constructed
    /\ faults = -1
    /\ last_rebuild = "none"
    /\ users = {[user_id |-> id, name |-> "Ann"] : id \in UserIds}
    /\ posts \in StoredPosts(MaxSharedPosts)
    /\ edges = SimilarPairs(posts)
    /\ budget = [t \in Threads |->
                    IF t = "t1" THEN [create_user |-> 1, create_post |-> 1, ids |-> UserIds]
                    ELSE NoBudget]

SpecConn == InitConn /\ [][Next]_vars /\ \A t \in Threads : WF_vars(Step(t))

\* The classifier alone: create_post(1, content) has passed ensure_connection
\* and is at line 96, for every content of SentContents.
InitSent ==
    /\ driver = "open"
    /\ faults = 0
    /\ EmptyStore
    /\ \E c \in SentContents :
          op = [t \in Threads |->
                  IF t = "t1" THEN [kind |-> "create_post", user_id |-> 1, arg |-> c]
                  ELSE NoOp]
    /\ pc = [t \in Threads |-> IF t = "t1" THEN "cp_sentiment" ELSE "idle"]
    /\ conn = [t \in Threads |-> NoConn]
    /\ sentiment = [t \in Threads |-> "none"]
    /\ users_data = [t \in Threads |-> <<>>]
    /\ relationships = [t \in Threads |-> <<>>]
    /\ returned = [t \in Threads |-> <<>>]
    /\ result = [t \in Threads |-> IF t = "t1" THEN "pending" ELSE "none"]
    /\ calls = [t \in Threads |-> IF t = "t1" THEN <<"ensure_connection">> ELSE <<>>]
    /\ budget = [t \in Threads |-> NoBudget]

NextSent == \E t \in Threads : AnalyzeSentiment(t)

SpecSent == InitSent /\ [][NextSent]_vars

\* The soft delete of the CRUD layer: the posts of ranks D carry the marker.
mark_deleted(ps, D) == [k \in DOMAIN ps |-> [ps[k] EXCEPT !.deleted = (k \in D)]]

\* The posts without the deleted marker (p.deleted IS NULL).
Live(ps) == SelectSeq(ps, LAMBDA p : ~p.deleted)

\* One client, one call, on a database of up to MaxStoredPosts posts of which
\* any may have been soft-deleted, with the relationships of the others.
InitDel ==
    /\ Constructed
    /\ faults = MaxFaults
    /\ last_rebuild = "none"
    /\ users = {[user_id |-> id, name |-> "Ann"] : id \in UserIds}
    /\ \E ps \in StoredPosts(MaxStoredPosts) :
          \E D \in SUBSET DOMAIN ps : posts = mark_deleted(ps, D)
    /\ edges = SimilarPairs(Live(posts))
    /\ budget \in {[t \in Threads |-> IF t = "t1" THEN b ELSE NoBudget] :
                      b \in {[create_user |-> 1, create_post |-> 0, ids |-> UserIds],
                             [create_user |-> 0, create_post |-> 1, ids |-> UserIds]}}

SpecDel == InitDel /\ [][Next]_vars

\* n posts, one tick apart; each user writes `stride` posts in a row.
RECURSIVE ListedPosts(_, _)
ListedPosts(n, stride) ==
    IF n = 0 THEN <<>>
    ELSE new_post(ListedPosts(n - 1, stride), ((n \div stride) % MaxUsers) + 1,
                  LoveDogs, _analyze_sentiment(LoveDogs))

\* One client, one listing, on a database of up to MaxListedPosts posts of
\* which the first two and the last may have been soft-deleted.
StepList(t) ==
    \/ GetUserPostsCall(t)
    \/ GetRecentPostsCall(t)
    \/ EnsureConnection(t)
    \/ Connect(t)
    \/ CheckConnection(t)
    \/ CloseIf(t)
    \/ CloseDo(t)
    \/ CloseFin(t)
    \/ GetUserPostsQuery(t)
    \/ GetRecentPostsQuery(t)

NextList == \E t \in Threads : StepList(t)

InitList ==
    /\ Constructed
    /\ faults = MaxFaults
    /\ last_rebuild = "none"
    /\ users = {[user_id |-> id, name |-> "Ann"] : id \in UserIds}
    /\ \E n \in 0..MaxListedPosts, stride \in {1, 2} :
          \E D \in SUBSET ({1, 2, n} \cap (1..n)) :
              posts = mark_deleted(ListedPosts(n, stride), D)
    /\ edges = SimilarPairs(posts)
    /\ budget \in {[t \in Threads |-> IF t = "t1" THEN b ELSE NoBudget] :
                      b \in {[NoBudget EXCEPT !.get_user_posts = 1, !.ids = UserIds],
                             [NoBudget EXCEPT !.get_recent_posts = 1, !.ids = {0}]}}

SpecList == InitList /\ [][NextList]_vars

(***************************************************************************)
(* Claims.                                                                 *)
(***************************************************************************)
AllPairs == {ab \in UserIds \X UserIds : ab[1] # ab[2]}

\* C1 (SpecDb): when the only running create_post has returned after a
\* recomputation that raised nothing and fetched at least 2 users, the
\* SIMILAR_CONTENT relationships are exactly the pairs of distinct users whose
\* vocabularies share a token, in both directions, whatever relationships
\* the database held before.
C1_RebuildExact ==
    \A t \in Threads :
        RecomputedOk(t) /\ Len(users_data[t]) >= 2 => edges = SimilarPairs(posts)

\* a rebuild over three users with content, that kept one pair and left
\* another pair without relationship
C1_Witness ==
    \E t \in Threads :
        /\ RecomputedOk(t)
        /\ Len(users_data[t]) = 3
        /\ Logged(t, "write")
        /\ <<1, 2>> \in edges /\ <<2, 1>> \in edges
        /\ <<2, 3>> \notin edges /\ <<3, 1>> \notin edges

\* C2 as claimed (SpecSeq): whenever create_post has returned, the
\* relationships are the similar pairs of the whole corpus.
C2_AsClaimed ==
    \A t \in Threads : PostReturned(t) => edges = SimilarPairs(posts)

\* C2 amended (SpecSeq): from an empty database and sequential calls,
\* whenever create_post has returned after a recomputation that raised
\* nothing, the relationships are the similar pairs of the whole corpus of
\* all users' posts.
C2_FullCorpus ==
    \A t \in Threads : RecomputedOk(t) => edges = SimilarPairs(posts)

\* three users with posts; the latest post's author shares nothing, the
\* relationship between the two others is there
C2_Witness ==
    \E t \in Threads :
        /\ RecomputedOk(t)
        /\ Cardinality(ContentBearing(posts)) = 3
        /\ edges # {}
        /\ \A ab \in edges : op[t].user_id \notin {ab[1], ab[2]}

\* C3 (SpecSeq): while a create_post for a user_id that no User has is
\* running, no step adds a post, changes a relationship or starts the
\* recomputation; the call ends with an error, and with UserNotFound when the
\* server answered the query.
C3_UnknownUser ==
    [][\A t \in Threads :
          (pc[t] # "idle" /\ op[t].kind = "create_post"
              /\ ~UserExists(users, op[t].user_id))
          => /\ posts' = posts
             /\ edges' = edges
             /\ ~Logged(t, "_update_relationships")'
             /\ pc'[t] \notin {"ur_fetch", "ur_clear", "ur_write"}
             /\ pc'[t] = "idle" => result'[t] # "ok"
             /\ (pc[t] = "cp_query" /\ driver = "open" /\ faults' = faults)
                    => result'[t] = "UserNotFound"]_vars

C3_Witness ==
    \E t \in Threads :
        /\ pc[t] = "idle" /\ op[t].kind = "create_post"
        /\ ~UserExists(users, op[t].user_id)
        /\ result[t] = "UserNotFound"
        /\ users # {} /\ posts # <<>>

\* C4 (SpecSeq): once the recomputation has raised, the create_post that ran
\* it has returned its post ("ok"), the post is in the database, and the
\* recomputation was started once and ran each of its queries at most once.
C4_Swallowed ==
    \A t \in Threads :
        Logged(t, "Error updating relationships")
        => /\ PostReturned(t)
           /\ posts # <<>>
           /\ posts[Len(posts)].user_id = op[t].user_id
           /\ posts[Len(posts)].content = op[t].arg
           /\ Occurrences(t, "_update_relationships") = 1
           /\ \A q \in {"fetch", "clear", "write", "Error updating relationships"} :
                  Occurrences(t, q) <= 1

\* the write raised, after the clear
C4_Witness ==
    \E t \in Threads :
        /\ Logged(t, "Error updating relationships")
        /\ Logged(t, "write")
        /\ PostReturned(t)

\* C5 (SpecDb): a fetch that returns fewer than 2 users ends the
\* recomputation in that step: no clear and no write is called, and the
\* relationships are those from before.
C5_TooFew ==
    [][\A t \in Threads :
          (pc[t] = "ur_fetch" /\ Logged(t, "fetch")' /\ Len(users_data'[t]) < 2)
          => /\ pc'[t] = "idle"
             /\ edges' = edges
             /\ ~Logged(t, "clear")'
             /\ ~Logged(t, "write")']_vars

\* one user with content was fetched, and the relationships of before are
\* still there
C5_Witness ==
    \E t \in Threads :
        /\ RecomputedOk(t)
        /\ Len(users_data[t]) = 1
        /\ edges # {}
        /\ ~Logged(t, "clear")

\* C10 (SpecSeq): a create_user whose query the server has run leaves exactly
\* one User with that user_id, under the name just given, and leaves every
\* other user, every post and every relationship as they were.
C10_Upsert ==
    [][\A t \in Threads :
          (pc[t] = "cu_query" /\ result'[t] = "ok")
          => /\ {u \in users' : u.user_id = op[t].user_id}
                   = {[user_id |-> op[t].user_id, name |-> op[t].arg]}
             /\ {u \in users' : u.user_id # op[t].user_id}
                   = {u \in users : u.user_id # op[t].user_id}
             /\ posts' = posts
             /\ edges' = edges]_vars

\* the second create_user of a user_id is about to rename the user
C10_Before ==
    \E t \in Threads :
        /\ pc[t] = "cu_query"
        /\ \E u \in users : u.user_id = op[t].user_id /\ u.name # op[t].arg

\* a create_user has returned after its MERGE matched the existing user
C10_Witness ==
    \E t \in Threads :
        /\ pc[t] = "idle" /\ op[t].kind = "create_user" /\ result[t] = "ok"
        /\ Logged(t, "ON MATCH")
        /\ Cardinality(users) >= 2
        /\ posts # <<>>

\* C9 (SpecSent): the tag create_post computes is "positive" when the
\* content has more token occurrences in the positive lexicon than in the
\* negative one, "negative" when it has fewer, "neutral" when as many; a token
\* occurrence is a maximal run of non-whitespace characters, lowercased.
LexiconOccurrences(s, lexicon) ==
    Cardinality({ij \in TokenOccurrences(s) :
                    LowerCased(SubSeq(s, ij[1], ij[2])) \in lexicon})

Classified(s) ==
    LET p == LexiconOccurrences(s, positive_words)
        n == LexiconOccurrences(s, negative_words)
    IN CASE p > n -> "positive"
         [] p < n -> "negative"
         [] p = n -> "neutral"

C9_Sentiment ==
    \A t \in Threads :
        sentiment[t] # "none" => sentiment[t] = Classified(op[t].arg)

\* one positive word twice against one negative word: repetition decides
C9_Witness ==
    \E t \in Threads :
        /\ sentiment[t] = "positive"
        /\ LexiconOccurrences(op[t].arg, positive_words) = 2
        /\ LexiconOccurrences(op[t].arg, negative_words) = 1
        /\ Cardinality(Tokens(op[t].arg) \cap positive_words) = 1

BothReturned == \A t \in Threads : RecomputedOk(t) /\ Logged(t, "clear")

Computed(t) == Range(relationships[t])

\* C6 as claimed (Spec): when both concurrent create_post calls have returned,
\* the relationships are those computed by the recomputation whose clear and
\* write ran last.
C6_AsClaimed ==
    BothReturned => edges = Computed(last_rebuild)

\* C6 amended (Spec): when both concurrent create_post calls have returned
\* after recomputations that raised nothing, the relationships include all
\* those computed by the recomputation whose clear and write ran last, and
\* every relationship is one that one of the two recomputations computed:
\* what the other one wrote after the last clear stays.
C6_LastRebuild ==
    BothReturned
    => /\ Computed(last_rebuild) \subseteq edges
       /\ edges \subseteq UNION {Computed(t) : t \in Threads}

\* the last rebuild computed fewer relationships than the database ends with
C6_Witness ==
    /\ BothReturned
    /\ Computed(last_rebuild) # {}
    /\ Computed(last_rebuild) # edges

\* C7 (Spec): no request opens a session on a driver handle that is None or
\* that another request's close() has closed.
C7_SafeSessions ==
    \A t \in Threads :
        ~Logged(t, "session on None") /\ ~Logged(t, "session on closed driver")

ConnectPcs == {"ec", "connect", "check", "close_if", "close_do", "close_fin"}

\* C8 (SpecConn): with a server that may fail every attempt, connect never
\* waits beyond max_time, a connect that gives up in ensure_connection's except
\* block ends the call with the exception in its caller's hands, and every
\* ensure_connection comes to an end.
C8_ConnectTerminates ==
    /\ [](\A t \in Threads : conn[t].elapsed <= max_time /\ expo(conn[t].tries) <= 2 * max_time)
    /\ [][\A t \in Threads :
            (pc[t] \in ConnectPcs /\ pc'[t] = "idle")
            => /\ result'[t] = conn[t].exc
               /\ conn[t].phase = "except"
               /\ Retryable(conn[t].exc) => conn[t].elapsed >= max_time]_vars
    /\ \A t \in Threads : (pc[t] \in ConnectPcs) ~> (pc[t] \notin ConnectPcs)

\* the call failed in ensure_connection with the server still unavailable
C8_Witness ==
    \E t \in Threads :
        /\ pc[t] = "idle"
        /\ result[t] = "ServiceUnavailable"
        /\ calls[t] = <<"ensure_connection">>

\* C11 (SpecList): a get_recent_posts that has returned gives at most
\* `limit` rows, none of a post that carries the deleted marker, the newest
\* post first; a get_user_posts that has returned gives exactly the posts of
\* the user asked for, the newest first. (post_id is the rank of the post in
\* the order of creation.)
NewestFirst(rows) ==
    \A i, j \in DOMAIN rows : i < j => rows[i].post_id > rows[j].post_id

ListingReturned(t, kind) ==
    pc[t] = "idle" /\ op[t].kind = kind /\ result[t] = "ok"

C11_Listings ==
    \A t \in Threads :
        /\ ListingReturned(t, "get_recent_posts")
           => /\ Len(returned[t]) <= limit
              /\ \A k \in DOMAIN returned[t] : ~posts[returned[t][k].post_id].deleted
              /\ NewestFirst(returned[t])
        /\ ListingReturned(t, "get_user_posts")
           => /\ {returned[t][k].post_id : k \in DOMAIN returned[t]}
                    = {posts[k].post_id : k \in {n \in DOMAIN posts :
                                                    posts[n].user_id = op[t].user_id}}
              /\ NewestFirst(returned[t])

\* C12 (SpecDel): a post that carries the deleted marker gives its owner no
\* token: every SIMILAR_CONTENT relationship joins two users whose posts
\* without the marker share a token.
C12_DeletedExcluded ==
    edges \subseteq SimilarPairs(Live(posts))

\* C13 (Spec): two concurrent create_post calls can both return, after
\* recomputations that raised nothing, with relationships of the final corpus
\* missing (C13_Witness); when they do, the recomputation whose clear and
\* write ran last had fetched before the other call's post was committed.
C13_LostUpdate ==
    (BothReturned /\ ~(SimilarPairs(posts) \subseteq edges))
    => users_data[last_rebuild] # fetch_users_data(users, posts)

\* both calls have returned, both posts are stored, and a pair of users that
\* share a token has no relationship
C13_Witness ==
    /\ BothReturned
    /\ \A t \in Threads : \E k \in DOMAIN posts :
           posts[k].user_id = op[t].user_id /\ posts[k].content = op[t].arg
    /\ \E ab \in SimilarPairs(posts) : ab \notin edges
    /\ edges # {}

\* C14 (SpecSeq): between the clear and the write of a rebuild that has
\* relationships to write, the database holds no SIMILAR_CONTENT relationship
\* (C14_Witness: although it held some before and will hold some after); and
\* when the write raises after the clear, create_post returns with none.
WriteFailed(t) ==
    Logged(t, "write") /\ Logged(t, "Error updating relationships")

C14_NotAtomic ==
    \A t \in Threads :
        /\ pc[t] = "ur_write" => edges = {} /\ relationships[t] # <<>>
        /\ (PostReturned(t) /\ WriteFailed(t)) => Logged(t, "clear") /\ edges = {}

\* mid-rebuild, no failure so far: the posts before this one had similar
\* pairs, whose relationships the last rebuild wrote and this clear removed
C14_Witness ==
    \E t \in Threads :
        /\ pc[t] = "ur_write"
        /\ faults = MaxFaults
        /\ SimilarPairs(SubSeq(posts, 1, Len(posts) - 1)) # {}
        /\ relationships[t] # <<>>
        /\ edges = {}

\* C15 (Spec): a create_post starts the recomputation in the step that
\* commits its post and nowhere else, at most once; it returns its post only
\* after the recomputation has run its fetch; a create_post that ends with an
\* error has not started a recomputation.
UrPcs == {"ur_fetch", "ur_clear", "ur_write"}

CreatePostEnded(t) == pc[t] = "idle" /\ op[t].kind = "create_post"

C15_RecomputeOnce ==
    /\ [](\A t \in Threads :
            /\ Occurrences(t, "_update_relationships") <= 1
            /\ pc[t] \in UrPcs => Occurrences(t, "_update_relationships") = 1
            /\ PostReturned(t)
               => /\ Occurrences(t, "_update_relationships") = 1
                  /\ Occurrences(t, "fetch") = 1
            /\ (CreatePostEnded(t) /\ result[t] # "ok")
               => /\ ~Logged(t, "_update_relationships")
                  /\ ~Logged(t, "fetch"))
    /\ [][\A t \in Threads :
            /\ (pc[t] = "cp_query" /\ pc'[t] # "cp_query")
               => /\ (posts' # posts) = (pc'[t] = "ur_fetch")
                  /\ (posts' # posts) = Logged(t, "_update_relationships")'
                  /\ (posts' = posts) => (pc'[t] = "idle" /\ result'[t] # "ok")
            /\ (pc'[t] = "ur_fetch" /\ pc[t] # "ur_fetch")
               => (pc[t] = "cp_query" /\ posts' = Append(posts, posts'[Len(posts')]))
            /\ (pc[t] \in UrPcs /\ pc'[t] \notin UrPcs)
               => (pc'[t] = "idle" /\ result'[t] = "ok")]_vars
    /\ [][posts' # posts => \E t \in Threads : pc[t] = "cp_query" /\ pc'[t] = "ur_fetch"]_vars

\* one call has returned its post after a recomputation, the other has
\* failed in its query and started none
C15_Witness ==
    \E t, u \in Threads :
        /\ PostReturned(t)
        /\ Logged(t, "fetch")
        /\ CreatePostEnded(u) /\ result[u] = "ServiceUnavailable"
        /\ Logged(u, "create_post query")

\* C16 (Spec): a recomputation that fetched at least 2 users calls the clear
\* once, before the write; it calls the write at most once, only with a
\* batch that is not empty, and the write merges the whole batch; with an
\* empty batch there is no write.
IndexOf(t, event) == CHOOSE k \in DOMAIN calls[t] : calls[t][k] = event

C16_ClearThenWrite ==
    /\ [](\A t \in Threads :
            /\ Occurrences(t, "clear") <= 1
            /\ Occurrences(t, "write") <= 1
            /\ Logged(t, "write")
               => /\ Logged(t, "clear")
                  /\ IndexOf(t, "clear") < IndexOf(t, "write")
                  /\ relationships[t] # <<>>
            /\ (PostReturned(t) /\ Len(users_data[t]) >= 2)
               => Occurrences(t, "clear") = 1
            /\ (RecomputedOk(t) /\ Len(users_data[t]) >= 2)
               => (Logged(t, "write") = (relationships[t] # <<>>)))
    /\ [][\A t \in Threads :
            /\ (pc[t] = "ur_clear" /\ pc'[t] = "ur_write")
               => /\ edges' = {}
                  /\ ~Logged(t, "write")'
            /\ (pc[t] = "ur_write" /\ pc'[t] = "idle"
                    /\ ~Logged(t, "Error updating relationships")')
               => edges' = edges \cup Range(relationships[t])]_vars

\* one rebuild over 2 users with nothing in common cleared and did not
\* write; the other one wrote a batch
C16_Witness ==
    \E t, u \in Threads :
        /\ RecomputedOk(t) /\ Len(users_data[t]) >= 2
        /\ Logged(t, "clear") /\ ~Logged(t, "write")
        /\ RecomputedOk(u) /\ Logged(u, "write")
        /\ Len(relationships[u]) >= 2

\* C17 (Spec): no step of _update_relationships, _clear_relationships or
\* _create_relationships, whether it raises or not, changes a user, a name, or
\* a post (its owner, content, sentiment tag, timestamp, marker) or the
\* number of posts.
C17_Frame ==
    [][\A t \in Threads :
          (pc[t] \in UrPcs /\ pc'[t] # pc[t]) => (users' = users /\ posts' = posts)]_vars

\* one recomputation raised, the other wrote relationships; the posts have
\* the tags of their contents and their owners
C17_Witness ==
    \E t, u \in Threads :
        /\ PostReturned(t) /\ Logged(t, "Error updating relationships")
        /\ RecomputedOk(u) /\ Logged(u, "write")
        /\ Len(posts) >= 2
        /\ \A k \in DOMAIN posts :
               /\ posts[k].sentiment = Classified(posts[k].content)
               /\ posts[k].post_id = k
               /\ UserExists(users, posts[k].user_id)

\* C18 (Spec): every operation calls ensure_connection before anything else,
\* so before its first query; and ensure_connection returns to the operation
\* only out of a health check that succeeded on a handle that is not None,
\* which after a failed check is a handle that connect() has just created.
QueryPcs == {"cu_query", "cp_sentiment", "cp_query", "ur_fetch", "ur_clear", "ur_write",
             "gup_query", "grp_query"}

C18_EnsureFirst ==
    /\ [](\A t \in Threads :
            /\ calls[t] # <<>> => calls[t][1] = "ensure_connection"
            /\ pc[t] \in QueryPcs => Logged(t, "ensure_connection"))
    /\ [][\A t \in Threads :
            (pc[t] \in ConnectPcs /\ pc'[t] \in QueryPcs)
            => /\ pc[t] = "check"
               /\ driver # "none" /\ driver' = driver
               /\ conn[t].phase = "except" => conn[t].inConnect]_vars

\* C19 (Spec): in every state, mid-rebuild and under any interleaving of two
\* clients, a relationship a->b is there exactly when b->a is, and no
\* relationship joins a user to itself.
C19_Symmetric ==
    \A ab \in edges : ab[1] # ab[2] /\ <<ab[2], ab[1]>> \in edges

\* one rebuild is between its clear and its write while the relationships
\* the other one wrote are there
C19_Witness ==
    \E t, u \in Threads :
        /\ pc[t] = "ur_write"
        /\ Logged(u, "write")
        /\ edges # {}
        /\ Range(relationships[t]) # edges

\* C20 (Spec): in every state, under any interleaving of two clients and
\* after any swallowed failure, every relationship joins two distinct users
\* whose vocabularies over the posts now stored share at least one token.
C20_NoSpurious ==
    edges \subseteq SimilarPairs(posts)

\* both calls are over, one recomputation raised, and the relationships are
\* some but not all of the similar pairs
C20_Witness ==
    /\ \A t \in Threads : PostReturned(t)
    /\ \E t \in Threads : Logged(t, "Error updating relationships")
    /\ edges # {}
    /\ edges # SimilarPairs(posts)

====
